---- MODULE Spec2Model ----
(***************************************************************************)
(* LBPFeature (src/LBP3d.py): rotation-invariant 3D local binary pattern   *)
(* feature extraction over a masked volume, P = 6 face neighbours, R = 1.  *)
(*                                                                         *)
(* The state is the object's fields (image, mask, n, m, k, pattern) and    *)
(* the locals of feature_vector; every action is one statement or one loop *)
(* iteration of feature_vector.  Frequencies val/freq_total are kept as    *)
(* the exact pair <<val, freq_total>>.                                     *)
(***************************************************************************)
EXTENDS Integers, Sequences, FiniteSets, TLC

VARIABLES image, mask, n, m, k, pattern,
          pc, err, shift_vec, shift_list, result,
          x_center, y_center, z_center, decimal_center,
          frequency, freq_total, fi, lbp_feature_vect_dict

vars == <<image, mask, n, m, k, pattern, pc, err, shift_vec, shift_list,
          result, x_center, y_center, z_center, decimal_center,
          frequency, freq_total, fi, lbp_feature_vect_dict>>

\* ------------------------------------------------------------------ bounds
\* intensities of the input volumes range over 0..MaxVal
MaxVal == 1
\* every dimension of a small input volume is in 1..MaxDim
MaxDim == 2
\* small volumes filled with arbitrary intensities have at most MaxCells voxels
MaxCells == 4

\* ------------------------------------------------------------ array helpers
\* index set of a numpy array of shape (a, b, c)
Cells(a, b, c) == (0..(a-1)) \X (0..(b-1)) \X (0..(c-1))

\* the i-th index (1-based) of an (a, b, c) array in C order, as numpy's
\* boolean selection and the nested loops of feature_vector visit it
CellAt(i, a, b, c) == << (i-1) \div (b*c), ((i-1) \div c) % b, (i-1) % c >>

\* np.zeros(shape)
Zeros(a, b, c) == [p \in Cells(a, b, c) |-> 0]

\* np.sign
NpSign(v) == IF v < 0 THEN -1 ELSE IF v = 0 THEN 0 ELSE 1

Abs(v) == IF v < 0 THEN -v ELSE v

\* ------------------------------------------------------------------- shift
\* extended_square: the image embedded in a zero array three times as large
ExtendedSquare(img, a, b, c) ==
    [e \in Cells(3*a, 3*b, 3*c) |->
        IF /\ e[1] \in a..(2*a-1)
           /\ e[2] \in b..(2*b-1)
           /\ e[3] \in c..(2*c-1)
        THEN img[<<e[1]-a, e[2]-b, e[3]-c>>]
        ELSE 0]

\* mutant: the window displaced by (dx, dy, dz)
WindowStartNominal(a, b, c, dx, dy, dz) == << a + dx, b + dy, c + dz >>

\* start of the window read back from extended_square
WindowStart(a, b, c, dx, dy, dz) == << a + dy, b - dx, c - dz >>

\* shift applied to an arbitrary image of shape (a, b, c)
ShiftOf(img, a, b, c, dx, dy, dz) ==
    LET extended_square == ExtendedSquare(img, a, b, c)
        w == WindowStart(a, b, c, dx, dy, dz)
    IN  [p \in Cells(a, b, c) |->
            extended_square[<<w[1] + p[1], w[2] + p[2], w[3] + p[3]>>]]

\* self.shift(dx, dy, dz)
shift(dx, dy, dz) == ShiftOf(image, n, m, k, dx, dy, dz)

\* ------------------------------------------------------- offset generation
\* mutant: the axis values in increasing order
AxisValuesSorted == <<-1, 0, 1>>

\* the value list of each axis
AxisValues == <<-1, 1, 0>>

\* the merged frame: all combinations, x outermost, then y, then z
MergedFrame ==
    LET len == Len(AxisValues)
    IN  [i \in 1..(len*len*len) |->
            LET c == CellAt(i, len, len, len)
            IN  << AxisValues[c[1]+1], AxisValues[c[2]+1], AxisValues[c[3]+1] >>]

\* mutant: the filter without .abs()
KeepRowNoAbs(row) == row[1] + row[2] + row[3] = 1

\* rows kept by shift_vec.abs().sum(axis=1) == 1
KeepRow(row) == Abs(row[1]) + Abs(row[2]) + Abs(row[3]) = 1

ShiftVec == SelectSeq(MergedFrame, KeepRow)

\* ---------------------------------------------------------------- encoding
\* mutant: a tie gives 0
SignBitTiesZero(b) == IF b = 1 THEN 1 ELSE 0

\* 0 or 1 assigned to a neighbour: b == -1 gives 0, anything else 1
SignBit(b) == IF b = -1 THEN 0 ELSE 1

\* decimal_center after the loop over the first j entries of shift list sl
RECURSIVE DecimalCenter(_, _, _, _)
DecimalCenter(sl, img, p, j) ==
    IF j = 0 THEN 0
    ELSE DecimalCenter(sl, img, p, j-1)
            + SignBit(NpSign(sl[j][p] - img[p])) * (2^(j-1))

\* shift_list as lines 89-94 build it for an image of shape (a, b, c)
ShiftListOf(img, a, b, c) ==
    [j \in 1..Len(ShiftVec) |->
        ShiftOf(img, a, b, c, ShiftVec[j][1], ShiftVec[j][2], ShiftVec[j][3])]

\* the raw code lines 103-115 compute at voxel p of an image
RawCodeOf(img, a, b, c, p) ==
    DecimalCenter(ShiftListOf(img, a, b, c), img, p, Len(ShiftVec))

\* ------------------------------------------------------------ pattern table
\* positions of the rows with pattern['original'] == code
RowsOf(pat, code) == {i \in 1..Len(pat) : pat[i].original = code}

HasRow(pat, code) == RowsOf(pat, code) # {}

\* .values[0]: the first matching row
FirstRow(pat, code) ==
    pat[CHOOSE i \in RowsOf(pat, code) : \A o \in RowsOf(pat, code) : i <= o]

\* mutant: the guard tests whether a row matches
LookupGuardTested(pat, code) == HasRow(pat, code)

\* the guard `if np.where((...).values == True):` tests a non-empty tuple
LookupGuard(pat, code) == TRUE

\* --------------------------------------------------------------- histogram
\* mutant: the zero regions are not removed
RECURSIVE MaskResultAll(_, _, _, _, _, _)
MaskResultAll(res, msk, a, b, c, i) ==
    IF i = 0 THEN << >>
    ELSE Append(MaskResultAll(res, msk, a, b, c, i-1), res[CellAt(i, a, b, c)])

\* result[self.mask == 1]: the values at the selected voxels, in C order
RECURSIVE MaskResult(_, _, _, _, _, _)
MaskResult(res, msk, a, b, c, i) ==
    IF i = 0 THEN << >>
    ELSE LET p == CellAt(i, a, b, c)
             before == MaskResult(res, msk, a, b, c, i-1)
         IN  IF msk[p] = 1 THEN Append(before, res[p]) ELSE before

\* mutant: a repeated value is not counted again
RECURSIVE CounterFirstOnly(_)
CounterFirstOnly(seq) ==
    IF seq = << >> THEN << >>
    ELSE LET before == CounterFirstOnly(SubSeq(seq, 1, Len(seq)-1))
             v == seq[Len(seq)]
         IN  IF \E i \in 1..Len(before) : before[i][1] = v THEN before
             ELSE Append(before, <<v, 1>>)

\* Counter(seq): <<value, count>> pairs in order of first occurrence
RECURSIVE Counter(_)
Counter(seq) ==
    IF seq = << >> THEN << >>
    ELSE LET before == Counter(SubSeq(seq, 1, Len(seq)-1))
             v == seq[Len(seq)]
             at == {i \in 1..Len(before) : before[i][1] = v}
         IN  IF at = {} THEN Append(before, <<v, 1>>)
             ELSE [i \in 1..Len(before) |->
                      IF i \in at THEN <<v, before[i][2] + 1>> ELSE before[i]]

\* mutant: the number of distinct values instead of the sum of the counts
SumCountsDistinct(freq) == Len(freq)

\* sum(frequency.values())
RECURSIVE SumCounts(_)
SumCounts(freq) ==
    IF freq = << >> THEN 0
    ELSE SumCounts(SubSeq(freq, 1, Len(freq)-1)) + freq[Len(freq)][2]

\* lbp_feature_vect_dict[key] = freq_scaled
DictSet(d, key, val) ==
    [q \in (DOMAIN d) \cup {key} |-> IF q = key THEN val ELSE d[q]]

\* ------------------------------------------------------------------ inputs
\* the six face neighbours (P = 6, R = 1) in the bit order of the pattern
\* table, and the number of raw codes
FaceOffsets ==
    << <<-1, 0, 0>>, <<1, 0, 0>>, <<0, -1, 0>>, <<0, 1, 0>>, <<0, 0, -1>>, <<0, 0, 1>> >>
NumBits == Len(FaceOffsets)
NumCodes == 2^NumBits

BitOf(r, j) == (r \div (2^(j-1))) % 2

\* the three quarter turns about the principal axes, acting on directions
Axes == {"x", "y", "z"}
RotDir(axis, d) ==
    IF axis = "z" THEN << -d[2], d[1], d[3] >>
    ELSE IF axis = "x" THEN << d[1], -d[3], d[2] >>
    ELSE << d[3], d[2], -d[1] >>

\* the bit whose offset is the rotated offset of bit j
RotBit(axis, j) ==
    CHOOSE j2 \in 1..NumBits : FaceOffsets[j2] = RotDir(axis, FaceOffsets[j])

RECURSIVE RotCodeUpTo(_, _, _)
RotCodeUpTo(axis, r, j) ==
    IF j = 0 THEN 0
    ELSE RotCodeUpTo(axis, r, j-1) + BitOf(r, j) * (2^(RotBit(axis, j)-1))

\* the raw code whose neighbour bits are those of r carried along by the turn
RotCode(axis, r) == RotCodeUpTo(axis, r, NumBits)

RECURSIVE OrbitClosure(_)
OrbitClosure(S) ==
    LET T == S \cup {RotCode(a, s) : a \in Axes, s \in S}
    IN  IF T = S THEN S ELSE OrbitClosure(T)

OrbitMin == [r \in 0..(NumCodes-1) |->
                LET O == OrbitClosure({r})
                IN  CHOOSE c \in O : \A o \in O : c <= o]

\* a rotation_invariant label (the column is read as a string)
Lab(c) == "ri" \o ToString(c)

\* the rotation invariant table: one row per raw code, minvalue the least raw
\* code of the rotation class, one label per class
CorrectTable ==
    [i \in 1..NumCodes |->
        [original |-> i-1, minvalue |-> OrbitMin[i-1],
         rotation_invariant |-> Lab(OrbitMin[i-1])]]

\* one row per raw code, every class sharing one label
SameLabelTable ==
    [i \in 1..NumCodes |->
        [original |-> i-1, minvalue |-> i-1, rotation_invariant |-> "ri"]]

\* one row per raw code, one label per class, the canonical code of a class
\* being a raw code of the complementary class
ComplementTable ==
    [i \in 1..NumCodes |->
        [original |-> i-1, minvalue |-> NumCodes - 1 - OrbitMin[i-1],
         rotation_invariant |-> Lab(OrbitMin[i-1])]]

\* one row per raw code, the minvalue column outside the original column
OutsideTable ==
    [i \in 1..NumCodes |->
        [original |-> i-1, minvalue |-> NumCodes + i - 1,
         rotation_invariant |-> Lab(i-1)]]

\* a table that lost the row of raw code r
WithoutRow(t, r) == SelectSeq(t, LAMBDA row : row.original # r)

Tables ==
    {CorrectTable, SameLabelTable, ComplementTable, OutsideTable,
     WithoutRow(CorrectTable, 0), WithoutRow(CorrectTable, NumCodes-1)}

Shapes == {s \in (1..MaxDim) \X (1..MaxDim) \X (1..MaxDim) : TRUE}
SmallShapes == {s \in Shapes : s[1]*s[2]*s[3] <= MaxCells}

Vals == 0..MaxVal

\* the volume whose voxels hold 1 + their C-order position
IndexVolume(s) ==
    [p \in Cells(s[1], s[2], s[3]) |-> 1 + p[3] + s[3]*(p[2] + s[2]*p[1])]

AllOnes(s) == [p \in Cells(s[1], s[2], s[3]) |-> 1]
AllZeros(s) == [p \in Cells(s[1], s[2], s[3]) |-> 0]
\* a mask with an entry that is neither 0 nor 1
WithTwo(s) == [p \in Cells(s[1], s[2], s[3]) |-> IF p = <<0,0,0>> THEN 2 ELSE 1]

\* 3x3x3 volumes: a centre, its six face neighbours, zero elsewhere
Centre == <<1, 1, 1>>
CubeShape == <<3, 3, 3>>
StarVolume(c, nb) ==
    [p \in Cells(3, 3, 3) |->
        IF p = Centre THEN c
        ELSE IF \E j \in 1..NumBits :
                    p = <<1 + FaceOffsets[j][1], 1 + FaceOffsets[j][2], 1 + FaceOffsets[j][3]>>
             THEN nb[CHOOSE j \in 1..NumBits :
                    p = <<1 + FaceOffsets[j][1], 1 + FaceOffsets[j][2], 1 + FaceOffsets[j][3]>>]
             ELSE 0]
CentreMask == [p \in Cells(3, 3, 3) |-> IF p = Centre THEN 1 ELSE 0]

Input(s, img, msk, pat) == [shape |-> s, image |-> img, mask |-> msk, pattern |-> pat]

\* a centre of intensity 1 with every combination of neighbour intensities
StarInputs ==
    {Input(CubeShape, StarVolume(1, nb), CentreMask, CorrectTable) :
        nb \in [1..NumBits -> Vals]}

\* every small volume with every mask under the rotation invariant table,
\* and with the full masks under every table
SmallInputs ==
    UNION {
        {Input(s, img, msk, CorrectTable) :
            img \in [Cells(s[1], s[2], s[3]) -> Vals],
            msk \in [Cells(s[1], s[2], s[3]) -> {0, 1}] \cup {WithTwo(s)}}
        \cup
        {Input(s, img, msk, pat) :
            img \in [Cells(s[1], s[2], s[3]) -> Vals],
            msk \in {AllOnes(s), WithTwo(s)},
            pat \in Tables} : s \in SmallShapes}

IndexInputs ==
    {Input(s, IndexVolume(s), AllOnes(s), CorrectTable) : s \in Shapes}

\* a mask whose shape differs from the volume's
MismatchInputs ==
    UNION {
        {Input(s, IndexVolume(s), msk, CorrectTable) :
            msk \in IF t = s THEN {} ELSE {AllOnes(t), AllZeros(t)}} :
        s \in SmallShapes, t \in SmallShapes}

Inputs == StarInputs \cup SmallInputs \cup IndexInputs \cup MismatchInputs

\* ---------------------------------------------------------------- __init__
Init ==
    /\ \E inp \in Inputs :
        /\ image = inp.image
        /\ mask = inp.mask
        /\ n = inp.shape[1]
        /\ m = inp.shape[2]
        /\ k = inp.shape[3]
        /\ pattern = inp.pattern
    /\ pc = "start"
    /\ err = "none"
    /\ shift_vec = << >>
    /\ shift_list = << >>
    /\ result = << >>
    /\ x_center = 0
    /\ y_center = 0
    /\ z_center = 0
    /\ decimal_center = 0
    /\ frequency = << >>
    /\ freq_total = 0
    /\ fi = 0
    /\ lbp_feature_vect_dict = << >>

inputs == <<image, mask, n, m, k, pattern>>
loopvars == <<x_center, y_center, z_center>>
histvars == <<frequency, freq_total, fi, lbp_feature_vect_dict>>

\* ---------------------------------------------------------- feature_vector
\* lines 71-84: the six shift vectors
MakeShiftVec ==
    /\ pc = "start"
    /\ shift_vec' = ShiftVec
    /\ pc' = "shifts"
    /\ UNCHANGED <<inputs, err, shift_list, result, loopvars, decimal_center, histvars>>

\* lines 90-94: one iteration of the loop filling shift_list
AppendShift ==
    /\ pc = "shifts"
    /\ Len(shift_list) < Len(shift_vec)
    /\ LET row == shift_vec[Len(shift_list) + 1]
       IN  shift_list' = Append(shift_list, shift(row[1], row[2], row[3]))
    /\ UNCHANGED <<inputs, pc, err, shift_vec, result, loopvars, decimal_center, histvars>>

\* line 97 and the entry of the voxel loops
AllocResult ==
    /\ pc = "shifts"
    /\ Len(shift_list) = Len(shift_vec)
    /\ result' = Zeros(n, m, k)
    /\ x_center' = 0
    /\ y_center' = 0
    /\ z_center' = 0
    /\ pc' = "loop"
    /\ UNCHANGED <<inputs, err, shift_vec, shift_list, decimal_center, histvars>>

pos == <<x_center, y_center, z_center>>

\* the next iteration of the three nested range loops, or their end
Advance ==
    IF z_center + 1 < k
    THEN /\ z_center' = z_center + 1
         /\ UNCHANGED <<x_center, y_center>>
         /\ pc' = "loop"
    ELSE IF y_center + 1 < m
    THEN /\ y_center' = y_center + 1
         /\ z_center' = 0
         /\ UNCHANGED x_center
         /\ pc' = "loop"
    ELSE IF x_center + 1 < n
    THEN /\ x_center' = x_center + 1
         /\ y_center' = 0
         /\ z_center' = 0
         /\ pc' = "loop"
    ELSE /\ UNCHANGED loopvars
         /\ pc' = "select"

\* mutant: any nonzero mask entry selects the voxel
MaskSelectsNonzero(p) == mask[p] # 0

\* line 102: the test of the mask at the current voxel
MaskSelects(p) == mask[p] = 1

\* line 102 on a mask that has no entry at the voxel: IndexError
MaskIndexError ==
    /\ pc = "loop"
    /\ pos \notin DOMAIN mask
    /\ pc' = "error"
    /\ err' = "IndexError: mask index"
    /\ UNCHANGED <<inputs, shift_vec, shift_list, result, loopvars, decimal_center, histvars>>

\* line 102 false: the voxel is not evaluated
SkipVoxel ==
    /\ pc = "loop"
    /\ pos \in DOMAIN mask
    /\ ~MaskSelects(pos)
    /\ Advance
    /\ UNCHANGED <<inputs, err, shift_vec, shift_list, result, decimal_center, histvars>>

\* lines 102-115: the raw code of a selected voxel
EncodeVoxel ==
    /\ pc = "loop"
    /\ pos \in DOMAIN mask
    /\ MaskSelects(pos)
    /\ decimal_center' = DecimalCenter(shift_list, image, pos, Len(shift_list))
    /\ pc' = "map"
    /\ UNCHANGED <<inputs, err, shift_vec, shift_list, result, loopvars, histvars>>

\* lines 119-125: the canonical code written into result
MapVoxel ==
    /\ pc = "map"
    /\ IF LookupGuard(pattern, decimal_center)
       THEN /\ HasRow(pattern, decimal_center)
            /\ result' = [result EXCEPT ![pos] = FirstRow(pattern, decimal_center).minvalue]
       ELSE UNCHANGED result
    /\ Advance
    /\ UNCHANGED <<inputs, err, shift_vec, shift_list, decimal_center, histvars>>

\* lines 123-125 with no matching row: .values[0] raises IndexError
LookupMiss ==
    /\ pc = "map"
    /\ LookupGuard(pattern, decimal_center)
    /\ ~HasRow(pattern, decimal_center)
    /\ pc' = "error"
    /\ err' = "IndexError: minvalue"
    /\ UNCHANGED <<inputs, shift_vec, shift_list, result, loopvars, decimal_center, histvars>>

\* line 127 with a mask of another shape: the boolean index does not match
SelectError ==
    /\ pc = "select"
    /\ DOMAIN mask # DOMAIN result
    /\ pc' = "error"
    /\ err' = "IndexError: boolean index"
    /\ UNCHANGED <<inputs, shift_vec, shift_list, result, loopvars, decimal_center, histvars>>

\* lines 127-134: the selected values, their counts and the total
CountFrequency ==
    /\ pc = "select"
    /\ DOMAIN mask = DOMAIN result
    /\ LET mask_result == MaskResult(result, mask, n, m, k, n*m*k)
       IN  /\ frequency' = Counter(mask_result)
           /\ freq_total' = SumCounts(Counter(mask_result))
    /\ fi' = 1
    /\ lbp_feature_vect_dict' = << >>
    /\ pc' = "build"
    /\ UNCHANGED <<inputs, err, shift_vec, shift_list, result, loopvars, decimal_center>>

\* lines 135-140: one entry of the feature vector
EmitEntry ==
    /\ pc = "build"
    /\ fi <= Len(frequency)
    /\ LET label == frequency[fi][1]
           val == frequency[fi][2]
       IN  IF LookupGuard(pattern, label)
           THEN /\ HasRow(pattern, label)
                /\ lbp_feature_vect_dict' =
                      DictSet(lbp_feature_vect_dict,
                              FirstRow(pattern, label).rotation_invariant,
                              <<val, freq_total>>)
           ELSE UNCHANGED lbp_feature_vect_dict
    /\ fi' = fi + 1
    /\ UNCHANGED <<inputs, pc, err, shift_vec, shift_list, result, loopvars,
                   decimal_center, frequency, freq_total>>

\* lines 137-138 with no row whose original is the canonical code: IndexError
EmitMiss ==
    /\ pc = "build"
    /\ fi <= Len(frequency)
    /\ LookupGuard(pattern, frequency[fi][1])
    /\ ~HasRow(pattern, frequency[fi][1])
    /\ pc' = "error"
    /\ err' = "IndexError: rotation_invariant"
    /\ UNCHANGED <<inputs, shift_vec, shift_list, result, loopvars, decimal_center, histvars>>

\* line 142
Return ==
    /\ pc = "build"
    /\ fi > Len(frequency)
    /\ pc' = "done"
    /\ UNCHANGED <<inputs, err, shift_vec, shift_list, result, loopvars, decimal_center, histvars>>

Next ==
    \/ MakeShiftVec
    \/ AppendShift
    \/ AllocResult
    \/ MaskIndexError
    \/ SkipVoxel
    \/ EncodeVoxel
    \/ MapVoxel
    \/ LookupMiss
    \/ SelectError
    \/ CountFrequency
    \/ EmitEntry
    \/ EmitMiss
    \/ Return

Spec == Init /\ [][Next]_vars

\* ================================================================== claims
\* the value of the image at q, 0 outside the grid
ReadAt(q) == IF q \in Cells(n, m, k) THEN image[q] ELSE 0

\* the voxel read for offset o at voxel p: displaced by (dy, -dx, -dz)
CoupledRead(o, p) == ReadAt(<<p[1] + o[2], p[2] - o[1], p[3] - o[3]>>)

\* the voxel read for offset o at voxel p if displaced by (dx, dy, dz)
NominalRead(o, p) == ReadAt(<<p[1] + o[1], p[2] + o[2], p[3] + o[3]>>)

\* C-order rank of a voxel
Lin(p) == p[3] + k * (p[2] + m * p[1])

SameShape == DOMAIN mask = DOMAIN image
Selected == {p \in Cells(n, m, k) \cap DOMAIN mask : mask[p] = 1}

\* the voxels whose loop iteration is over
Visited ==
    IF pc \in {"loop", "map"} \/ err \in {"IndexError: mask index", "IndexError: minvalue"}
    THEN {p \in Cells(n, m, k) : Lin(p) < Lin(pos)}
    ELSE IF pc \in {"start", "shifts"} THEN {}
    ELSE Cells(n, m, k)

\* the raw code of voxel p: bit j is 0 iff the j-th neighbour read is
\* strictly less than the centre
RECURSIVE RawSpecUpTo(_, _)
RawSpecUpTo(p, j) ==
    IF j = 0 THEN 0
    ELSE RawSpecUpTo(p, j-1)
           + (IF CoupledRead(FaceOffsets[j], p) < image[p] THEN 0 ELSE 1) * 2^(j-1)
RawSpec(p) == RawSpecUpTo(p, NumBits)

RowOfRaw(r) == pattern[CHOOSE i \in 1..Len(pattern) : pattern[i].original = r]
CanonCodes == {pattern[i].minvalue : i \in 1..Len(pattern)}
Originals == {pattern[i].original : i \in 1..Len(pattern)}
CanonSpec(p) == RowOfRaw(RawSpec(p)).minvalue
LabelSpec(p) == RowOfRaw(RawSpec(p)).rotation_invariant

\* exactly one row per raw code 0..63
OneRowPerRawCode ==
    /\ Len(pattern) = NumCodes
    /\ Originals = 0..(NumCodes-1)

\* every canonical code is a raw code of the table, and distinct canonical
\* codes carry distinct labels
CanonLabelsDistinct ==
    /\ CanonCodes \subseteq Originals
    /\ \A c1, c2 \in CanonCodes :
          RowOfRaw(c1).rotation_invariant = RowOfRaw(c2).rotation_invariant => c1 = c2

\* the row of a canonical code carries the label of the raw codes mapped to it
CanonLabelsAgree ==
    /\ CanonCodes \subseteq Originals
    /\ \A i \in 1..Len(pattern) :
          RowOfRaw(pattern[i].minvalue).rotation_invariant = pattern[i].rotation_invariant

\* the sum of the counts behind the emitted entries
RECURSIVE SumOver(_, _)
SumOver(d, keys) ==
    IF keys = {} THEN 0
    ELSE LET q == CHOOSE q \in keys : TRUE
         IN  d[q][1] + SumOver(d, keys \ {q})
EmittedCount == SumOver(lbp_feature_vect_dict, DOMAIN lbp_feature_vect_dict)

\* C1 as stated: for every table with exactly one row per raw code and every
\* mask selecting a voxel, the returned frequencies sum to 1, the counts
\* behind them adding up to the number of mask == 1 voxels.
C1_SumsToOne_AnyOneRowTable ==
    (pc = "done" /\ Selected # {} /\ OneRowPerRawCode)
        => /\ EmittedCount = freq_total
           /\ freq_total = Cardinality(Selected)

\* C1 amended: the same, for tables whose canonical codes are raw codes of the
\* table and carry pairwise distinct labels.
C1_SumsToOne ==
    (pc = "done" /\ Selected # {} /\ OneRowPerRawCode /\ CanonLabelsDistinct)
        => /\ EmittedCount = freq_total
           /\ freq_total = Cardinality(Selected)
           /\ \A q \in DOMAIN lbp_feature_vect_dict :
                 lbp_feature_vect_dict[q][2] = freq_total

C1_Witness ==
    /\ pc = "done"
    /\ OneRowPerRawCode /\ CanonLabelsDistinct
    /\ Cardinality(Selected) >= 3
    /\ Cardinality(DOMAIN lbp_feature_vect_dict) >= 2
    /\ EmittedCount = Cardinality(Selected)

\* the entries the claim describes: for every selected voxel, its label maps
\* to (number of selected voxels with its canonical code) / (selected voxels)
EntriesAsClaimed ==
    /\ DOMAIN lbp_feature_vect_dict = {LabelSpec(p) : p \in Selected}
    /\ \A p \in Selected :
          lbp_feature_vect_dict[LabelSpec(p)]
              = << Cardinality({q \in Selected : CanonSpec(q) = CanonSpec(p)}),
                   Cardinality(Selected) >>

\* C2 as stated: every observed canonical code yields the entry
\* label -> count/total, label being the label the table gives to the raw
\* codes that produced the canonical code.
C2_Entries_AnyTable ==
    (pc = "done" /\ OneRowPerRawCode) => EntriesAsClaimed

\* C2 amended: the same, for tables in which the row of every canonical code
\* carries the label of the raw codes mapped to it and distinct canonical
\* codes carry distinct labels.
C2_Entries ==
    (pc = "done" /\ OneRowPerRawCode /\ CanonLabelsAgree /\ CanonLabelsDistinct)
        => EntriesAsClaimed

\* three selected voxels, two sharing a canonical code: {l1: 2/3, l2: 1/3}
C2_Witness ==
    /\ pc = "done"
    /\ OneRowPerRawCode /\ CanonLabelsAgree /\ CanonLabelsDistinct
    /\ Cardinality(Selected) = 3
    /\ \E q1, q2 \in DOMAIN lbp_feature_vect_dict :
          /\ lbp_feature_vect_dict[q1] = <<2, 3>>
          /\ lbp_feature_vect_dict[q2] = <<1, 3>>

\* a table that gives one canonical code and one label to all raw codes
\* related by a quarter turn of the six face-neighbour directions
RotationInvariantTable ==
    /\ OneRowPerRawCode
    /\ \A r \in 0..(NumCodes-1) : \A a \in Axes :
          /\ RowOfRaw(RotCode(a, r)).minvalue = RowOfRaw(r).minvalue
          /\ RowOfRaw(RotCode(a, r)).rotation_invariant = RowOfRaw(r).rotation_invariant

\* the 3x3x3 volume turned by 90 degrees about a principal axis through the
\* centre voxel
RotateVolume(a, img) ==
    [p \in Cells(3, 3, 3) |->
        LET d == RotDir(a, <<p[1] - 1, p[2] - 1, p[3] - 1>>)
        IN  img[<<1 + d[1], 1 + d[2], 1 + d[3]>>]]

\* the label feature_vector emits for the centre voxel of a 3x3x3 image
CentreLabel(img) ==
    LET raw == RawCodeOf(img, 3, 3, 3, Centre)
        canon == FirstRow(pattern, raw).minvalue
    IN  FirstRow(pattern, canon).rotation_invariant

\* C3: with a rotation invariant table, a 3x3x3 volume and the same volume
\* turned by 90 degrees about a principal axis give the masked centre voxel
\* the same label.
C3_RotationInvariance ==
    (pc = "done" /\ <<n, m, k>> = CubeShape /\ mask = CentreMask /\ RotationInvariantTable)
        => \A a \in Axes :
              DOMAIN lbp_feature_vect_dict = {CentreLabel(RotateVolume(a, image))}

\* a volume that a quarter turn changes, with a different raw code after it
C3_Witness ==
    /\ pc = "done" /\ <<n, m, k>> = CubeShape /\ mask = CentreMask
    /\ RotationInvariantTable
    /\ \E a \in Axes :
          /\ RotateVolume(a, image) # image
          /\ RawCodeOf(RotateVolume(a, image), 3, 3, 3, Centre) # decimal_center
          /\ DOMAIN lbp_feature_vect_dict = {CentreLabel(RotateVolume(a, image))}

\* every raw code is the code of the centre voxel of some 3x3x3 volume
AllCodesRealised ==
    \A c \in 0..(NumCodes-1) :
        \E v \in [1..NumBits -> {0, 1}] :
            RawCodeOf(StarVolume(1, v), 3, 3, 3, Centre) = c

RECURSIVE BitSum(_)
BitSum(j) ==
    IF j = 0 THEN 0
    ELSE BitSum(j-1)
           + (IF shift_list[j][pos] < image[pos] THEN 0 ELSE 1) * 2^(j-1)

\* C4: the raw code of a selected voxel is the sum of bit_j * 2^j, bit_j = 0
\* iff the j-th shifted volume is strictly less than the centre there; it is
\* in 0..63 and every value 0..63 is realised at the centre of a 3x3x3 volume.
C4_RawCode ==
    /\ pc = "map" =>
          /\ Len(shift_list) = NumBits
          /\ decimal_center = BitSum(NumBits)
          /\ decimal_center \in 0..(NumCodes-1)
    /\ AllCodesRealised

\* a centre with a smaller, an equal and a greater neighbour
C4_Witness ==
    /\ pc = "map" /\ <<n, m, k>> = CubeShape /\ pos = Centre
    /\ \E j1, j2 \in 1..NumBits :
          /\ shift_list[j1][pos] < image[pos]
          /\ shift_list[j2][pos] = image[pos]
    /\ decimal_center \notin {0, NumCodes-1}

NoneSelected == \A p \in DOMAIN mask : mask[p] # 1

\* C6: a mask (of the volume's shape) selecting no voxel gives the empty
\* mapping and no error; total is 0 and no frequency is ever computed.
C6_EmptyMask ==
    (SameShape /\ NoneSelected)
        => /\ pc # "error"
           /\ lbp_feature_vect_dict = << >>
           /\ freq_total = 0
           /\ frequency = << >>

C6_Witness ==
    /\ pc = "done" /\ SameShape /\ NoneSelected
    /\ \E p \in DOMAIN mask : mask[p] # 0
    /\ lbp_feature_vect_dict = << >>

\* C7: a selected voxel whose raw code has no row makes feature_vector fail
\* at that voxel, leaving result untouched; the loop never continues past
\* such a voxel and no mapping is returned.
C7_LookupMissFails ==
    /\ [][(pc = "map" /\ ~HasRow(pattern, decimal_center))
            => (pc' = "error" /\ err' = "IndexError: minvalue" /\ result' = result
                /\ lbp_feature_vect_dict' = << >>)]_vars
    /\ [](\A p \in Visited \cap Selected : RawSpec(p) \in Originals)

\* the miss at a later voxel than the first selected one
C7_Witness ==
    /\ pc = "error" /\ err = "IndexError: minvalue"
    /\ RawSpec(pos) \notin Originals
    /\ Visited \cap Selected # {}

\* C8: with a mask of another shape nothing is computed: no shifted volume is
\* built, no voxel encoded, no mapping returned.
C8_MismatchFailsFirst ==
    ~SameShape => (shift_list = << >> /\ pc \notin {"map", "done"})

\* C9: the generated offsets are the six unit offsets in the order
\* (-1,0,0), (1,0,0), (0,-1,0), (0,1,0), (0,0,-1), (0,0,1); the j-th shifted
\* volume and bit j of the raw code belong to the j-th offset.
C9_OffsetOrder ==
    /\ pc # "start" =>
          /\ shift_vec = FaceOffsets
          /\ \A i, j \in 1..Len(shift_vec) : shift_vec[i] = shift_vec[j] => i = j
          /\ \A j \in 1..Len(shift_vec) :
                Abs(shift_vec[j][1]) + Abs(shift_vec[j][2]) + Abs(shift_vec[j][3]) = 1
    /\ pc = "map" =>
          \A j \in 1..NumBits :
              BitOf(decimal_center, j)
                 = (IF shift(shift_vec[j][1], shift_vec[j][2], shift_vec[j][3])[pos] < image[pos]
                    THEN 0 ELSE 1)

C9_Witness ==
    /\ pc = "map"
    /\ Len(shift_list) = 6
    /\ shift_vec[3] = <<0, -1, 0>>
    /\ BitOf(decimal_center, 3) = 0
    /\ BitOf(decimal_center, 4) = 1

\* what result holds while and after the voxels are visited
ResultAsClaimed ==
    pc \notin {"start", "shifts"} =>
        \A p \in Cells(n, m, k) :
            result[p] = IF p \in Visited \cap Selected THEN CanonSpec(p) ELSE 0

\* C10: during the per-voxel pass the volume, the mask and the table are not
\* modified; positions with mask # 1 are never written and stay 0; positions
\* with mask = 1 are written at most once, with the canonical code of the
\* voxel's raw code.
C10_Frame ==
    /\ []ResultAsClaimed
    /\ [][/\ image' = image /\ mask' = mask /\ pattern' = pattern
          /\ pc \in {"loop", "map"} =>
                /\ \A p \in Cells(n, m, k) :
                      result'[p] # result[p]
                          => /\ p = pos /\ pc = "map" /\ mask[p] = 1
                             /\ result[p] = 0
                             /\ result'[p] = RowOfRaw(decimal_center).minvalue
                /\ pc' \in {"loop", "map"} => Lin(pos') >= Lin(pos)
                /\ (pc = "map" /\ pc' = "loop") => Lin(pos') > Lin(pos)]_vars

C10_Witness ==
    /\ pc = "done"
    /\ \E p \in DOMAIN mask : mask[p] = 2 /\ result[p] = 0
    /\ \E p \in DOMAIN mask : mask[p] = 1 /\ result[p] # 0

====
